---- MODULE Spec2Model ----
(***************************************************************************)
(* A model of the UPRM technical-report feedback application:              *)
(*   - the rubric store of app.py (active rubric file, RubricVersion       *)
(*     table, the admin endpoints save / rollback / versions / get);       *)
(*   - the feedback generator of feedback_tech.py (generate_feedback and   *)
(*     its helpers), and the POST /get_feedback handler of app.py that     *)
(*     calls it;                                                           *)
(*   - the rubric extractor of rubric_extract.py;                          *)
(*   - the interaction table of app.py (POST /get_feedback,                *)
(*     POST /submit_feedback, GET /api/history/<id>);                      *)
(*   - admin save / rollback requests of app.py running concurrently,      *)
(*     each in two steps: write the active file, append the version row.   *)
(*                                                                         *)
(* Conventions.                                                            *)
(*   Strings that the code trims are sequences of tokens; the token " "    *)
(*   is whitespace, every other token is a run of non-blank text.          *)
(*   Numbers are exact, in tenths of a point (60 is 6.0 points).           *)
(*   A JSON text is a record: whether it parses, its layout, its value.    *)
(***************************************************************************)
EXTENDS Integers, Sequences, FiniteSets, TLC

VARIABLES
    \* ---- rubric store (app.py) ----
    rubricFile,   \* the content of data/rubric_master.json
    versions,     \* the rubric_version table, in insertion order
    resp,         \* the last HTTP exchange of the rubric endpoints
    \* ---- one generate_feedback call (feedback_tech.py) ----
    message,      \* argument message
    rubric,       \* argument rubric (a list of items)
    apiKey,       \* OPENAI_API_KEY, a token string
    strictEnv,    \* EVIDENCE_STRICT, or "unset"
    llm,          \* what the LLM call and json.loads produce
    pc,           \* position in generate_feedback
    rows,         \* writing_rows (rows are mutated in place, line 176)
    idx,          \* index of the next row of the main loop
    earned,       \* local earned
    max_total,    \* local max_total
    scores,       \* local scores: name -> {score, total}
    evidence_quotes, \* local evidence_quotes
    cap_notes,    \* local cap_notes
    result,       \* the returned tuple, or the raised exception
    llmCalls,     \* calls of client.chat.completions.create so far
    \* ---- one POST /get_feedback (app.py) ----
    attempt,      \* 1 in the try of line 551, 2 in its except (line 558)
    http,         \* status of the response, 0 before it
    \* ---- one extract_rubric_from_text call (rubric_extract.py) ----
    exText,       \* argument text, as lines
    exKey,        \* OPENAI_API_KEY as _llm_extract reads it
    exLlm,        \* what the LLM call and json.loads of _llm_extract produce
    exPc,         \* position in extract_rubric_from_text
    exLines,      \* lines of _heuristic_extract
    exPos,        \* index of the next line of its loop
    exItems,      \* items of _heuristic_extract
    current_name, \* current_name, <<>> for None
    current_criteria, \* current_criteria
    exResult,     \* the returned list
    \* ---- the interaction table (app.py, models.py) ----
    interactions, \* the interaction table, in insertion order
    logResp,      \* the last HTTP exchange of the interaction endpoints
    \* ---- concurrent admin requests (app.py) ----
    inflight      \* per request: the handler's position and locals

storeVars == <<rubricFile, versions, resp>>
reqVars == <<attempt, http>>
genVars == <<message, rubric, apiKey, strictEnv, llm, pc, rows, idx, earned,
             max_total, scores, evidence_quotes, cap_notes, result, llmCalls,
             attempt, http>>
exVars == <<exText, exKey, exLlm, exPc, exLines, exPos, exItems, current_name,
            current_criteria, exResult>>
logVars == <<interactions, logResp>>
concVars == <<inflight>>
vars == <<rubricFile, versions, resp, message, rubric, apiKey, strictEnv, llm,
          pc, rows, idx, earned, max_total, scores, evidence_quotes,
          cap_notes, result, llmCalls, attempt, http, exText, exKey, exLlm,
          exPc,
          exLines, exPos, exItems, current_name, current_criteria, exResult,
          interactions, logResp, inflight>>

----------------------------------------------------------------------------
(* Bounds of the model.                                                    *)

\* longest version history explored
MaxVersions == 3
\* longest rubric handed to generate_feedback
MaxSections == 2
\* most rows in the LLM's "writing" list
MaxRows == 2

----------------------------------------------------------------------------
(* Strings and trimming.                                                   *)

\* str.strip(): drop leading and trailing whitespace tokens.
RECURSIVE LStrip(_)
LStrip(s) ==
    IF s = <<>> THEN <<>>
    ELSE IF Head(s) = " " THEN LStrip(Tail(s)) ELSE s

RECURSIVE RStrip(_)
RStrip(s) ==
    IF s = <<>> THEN <<>>
    ELSE IF s[Len(s)] = " " THEN RStrip(SubSeq(s, 1, Len(s) - 1)) ELSE s

Strip(s) == RStrip(LStrip(s))

----------------------------------------------------------------------------
(* Rubric items as JSON values.                                            *)
(* An item is a JSON object (isDict) with an optional name, an optional    *)
(* numeric max_points and a scoringCriteria list, or it is not an object.  *)
(* A criterion's points is a number (num) or a non-numeric string.         *)

Pt(n) == [num |-> TRUE, pts |-> n]
PtText == [num |-> FALSE, pts |-> 0]

Item(nm, hasMax, mp, crit) ==
    [isDict |-> TRUE, name |-> nm, hasMax |-> hasMax, max_points |-> mp,
     criteria |-> crit]

\* an array element that is not an object, such as the number 42
NotAnObject ==
    [isDict |-> FALSE, name |-> <<>>, hasMax |-> FALSE, max_points |-> 0,
     criteria |-> <<>>]

SecA == Item(<<"A">>, TRUE, 60, <<Pt(60), Pt(40)>>)
SecB == Item(<<"B">>, FALSE, 0, <<Pt(40), Pt(90), PtText>>)
SecPadA == Item(<<" ", "A">>, TRUE, 30, <<>>)
SecBlank == Item(<<" ">>, FALSE, 0, <<Pt(20)>>)

ItemSet == {SecA, SecB, SecPadA, SecBlank, NotAnObject}

\* JSON values that reach the rubric endpoints: an array of items, an
\* object, or null.
JArray(items) == [kind |-> "array", items |-> items]
JObject == [kind |-> "object", items |-> <<>>]
JNull == [kind |-> "null", items |-> <<>>]

DEFAULT_TECH_RUBRIC ==
    JArray(<<
        Item(<<"Executive Summary">>, TRUE, 60,
             <<Pt(60), Pt(40), Pt(20), Pt(0)>>),
        Item(<<"Justification (Intro & Baseline)">>, TRUE, 120,
             <<Pt(120), Pt(90), Pt(60), Pt(30)>>),
        Item(<<"Summary (Improved Process & Results)">>, TRUE, 90,
             <<Pt(90), Pt(70), Pt(50), Pt(20)>>),
        Item(<<"Conclusions">>, TRUE, 30,
             <<Pt(30), Pt(20), Pt(10), Pt(0)>>),
        Item(<<"Recommendations">>, TRUE, 30,
             <<Pt(30), Pt(20), Pt(10), Pt(0)>>),
        Item(<<"6a) Designed Equipment">>, TRUE, 180,
             <<Pt(180), Pt(150), Pt(100), Pt(60)>>),
        Item(<<"6b) Safety, Health & Environment">>, TRUE, 90,
             <<Pt(90), Pt(70), Pt(50), Pt(20)>>),
        Item(<<"6c) Economic Analysis">>, TRUE, 90,
             <<Pt(90), Pt(70), Pt(50), Pt(20)>>),
        Item(<<"Quality of the Written Work">>, TRUE, 60,
             <<Pt(60), Pt(40), Pt(20), Pt(10)>>)
    >>)

----------------------------------------------------------------------------
(* JSON texts and the file helpers of app.py.                              *)

\* json.dumps(obj, ensure_ascii=False, indent=n): a text that parses to obj.
Dumps(obj, indent) == [valid |-> TRUE, indent |-> indent, val |-> obj]

\* a text json.loads rejects
GarbageText == [valid |-> FALSE, indent |-> 0, val |-> JNull]

\* faulty variant: every text is taken to parse
LoadsLenient(text) == [ok |-> TRUE, val |-> text.val]

\* json.loads(text): ok = FALSE stands for the raised JSONDecodeError.
Loads(text) ==
    IF text.valid THEN [ok |-> TRUE, val |-> text.val]
    ELSE [ok |-> FALSE, val |-> JNull]

NoFile == [exists |-> FALSE, text |-> GarbageText]

\* faulty variant: the write is lost
DumpJsonDropsWrite(file, obj) == file

\* _dump_json(path, obj): the file after path.write_text(json.dumps(..)).
DumpJson(file, obj) == [exists |-> TRUE, text |-> Dumps(obj, 2)]

\* _load_json(path, default)
LoadJson(file, default) ==
    IF file.exists /\ Loads(file.text).ok THEN Loads(file.text).val
    ELSE default

----------------------------------------------------------------------------
(* Accounts: g.current_user of a request; Anonymous is "not logged in".    *)

Admins == {1, 2}
Students == {3}
Anonymous == 0
Actors == Admins \cup Students

\* _admin_required() lets the request through
IsAdmin(actor) == actor \in Admins

----------------------------------------------------------------------------
(* The rubric endpoints.                                                   *)

\* request bodies of /save_WRITING_RUBRICs: parses = FALSE is a body
\* request.get_json(force=True) rejects.
Body(v) == [parses |-> TRUE, val |-> v]
BadBody == [parses |-> FALSE, val |-> JNull]

SaveBodies ==
    { BadBody, Body(JObject), Body(JArray(<<>>)),
      Body(JArray(<<SecA, SecB>>)), Body(JArray(<<NotAnObject>>)) }

\* request bodies of /rubric/rollback: hasVid = FALSE is a body without a
\* usable version_id (int() raises), written vid = -1.
RollbackBodies ==
    { [hasVid |-> FALSE, vid |-> -1] } \cup
    { [hasVid |-> TRUE, vid |-> v] : v \in 0 .. MaxVersions + 1 }

NoListing == <<>>

Resp(op, status, actor, body, vid, val, listing) ==
    [op |-> op, status |-> status, actor |-> actor, body |-> body,
     vid |-> vid, val |-> val, listing |-> listing]

\* a row of rubric_version (created_at is the position in the table)
VersionRow(id, by, text) == [id |-> id, created_by |-> by, rubric_json |-> text]

\* db.session.add(rv); db.session.commit(), or the rollback of the except
\* branch when the commit raises
AddVersion(table, by, text, commitOk) ==
    IF commitOk THEN Append(table, VersionRow(Len(table) + 1, by, text))
    ELSE table

\* db.session.get(RubricVersion, vid)
HasVersion(table, vid) == \E i \in 1 .. Len(table) : table[i].id = vid
\* faulty variant: the newest row, whatever the id
GetLatestVersion(table, vid) == table[Len(table)]
GetVersion(table, vid) ==
    table[CHOOSE i \in 1 .. Len(table) : table[i].id = vid]

\* the rubric get_rubrics answers with
GetActive == LoadJson(rubricFile, DEFAULT_TECH_RUBRIC)

\* faulty variant: a JSON object passes as well
IsListOrObject(v) == v.kind \in {"array", "object"}

\* isinstance(data, list)
IsList(v) == v.kind = "array"

\* GET /get_WRITING_RUBRICs
GetRubrics ==
    /\ resp' = Resp("get", 200, Anonymous, BadBody, 0, GetActive, NoListing)
    /\ UNCHANGED <<rubricFile, versions>>
    /\ UNCHANGED <<genVars, exVars, logVars, concVars>>

\* POST /save_WRITING_RUBRICs
SaveRubrics(actor, body, commitOk) ==
    /\ UNCHANGED <<genVars, exVars, logVars, concVars>>
    /\ IF ~IsAdmin(actor) THEN
           /\ resp' = Resp("save", 403, actor, body, 0, JNull, NoListing)
           /\ UNCHANGED <<rubricFile, versions>>
       ELSE IF ~body.parses \/ ~IsList(body.val) THEN
           /\ resp' = Resp("save", 400, actor, body, 0, JNull, NoListing)
           /\ UNCHANGED <<rubricFile, versions>>
       ELSE
           /\ Len(versions) < MaxVersions
           /\ rubricFile' = DumpJson(rubricFile, body.val)
           /\ versions' = AddVersion(versions, actor, Dumps(body.val, 0), commitOk)
           /\ resp' = Resp("save", 200, actor, body, 0, JNull, NoListing)

\* the most recent rows first, at most n of them
RECURSIVE Recent(_, _)
Recent(table, n) ==
    IF n = 0 \/ table = <<>> THEN <<>>
    ELSE <<[id |-> table[Len(table)].id,
            created_by |-> table[Len(table)].created_by]>>
         \o Recent(SubSeq(table, 1, Len(table) - 1), n - 1)

VersionsLimit == 20

\* GET /rubric/versions
RubricVersions(actor) ==
    /\ resp' = IF IsAdmin(actor)
               THEN Resp("versions", 200, actor, BadBody, 0, JNull,
                         Recent(versions, VersionsLimit))
               ELSE Resp("versions", 403, actor, BadBody, 0, JNull, NoListing)
    /\ UNCHANGED <<rubricFile, versions>>
    /\ UNCHANGED <<genVars, exVars, logVars, concVars>>

\* POST /rubric/rollback
RubricRollback(actor, req, commitOk) ==
    /\ UNCHANGED <<genVars, exVars, logVars, concVars>>
    /\ IF ~IsAdmin(actor) THEN
           /\ resp' = Resp("rollback", 403, actor, BadBody, req.vid, JNull, NoListing)
           /\ UNCHANGED <<rubricFile, versions>>
       ELSE IF ~req.hasVid THEN
           /\ resp' = Resp("rollback", 400, actor, BadBody, req.vid, JNull, NoListing)
           /\ UNCHANGED <<rubricFile, versions>>
       ELSE IF ~HasVersion(versions, req.vid) THEN
           /\ resp' = Resp("rollback", 404, actor, BadBody, req.vid, JNull, NoListing)
           /\ UNCHANGED <<rubricFile, versions>>
       ELSE IF ~Loads(GetVersion(versions, req.vid).rubric_json).ok THEN
           /\ resp' = Resp("rollback", 400, actor, BadBody, req.vid, JNull, NoListing)
           /\ UNCHANGED <<rubricFile, versions>>
       ELSE
           /\ Len(versions) < MaxVersions
           /\ rubricFile' =
                 DumpJson(rubricFile,
                          Loads(GetVersion(versions, req.vid).rubric_json).val)
           /\ versions' = AddVersion(versions, actor,
                                     GetVersion(versions, req.vid).rubric_json,
                                     commitOk)
           /\ resp' = Resp("rollback", 200, actor, BadBody, req.vid, JNull, NoListing)

----------------------------------------------------------------------------
(* The state after create_app(): the module wrote the default rubric file  *)
(* (lines 150-151); db.create_all() keeps the rows of an earlier run, so   *)
(* the version table may already hold a row, whose text the code does not  *)
(* trust (line 352).                                                       *)

NoResp == Resp("none", 200, Anonymous, BadBody, 0, JNull, NoListing)

StoreStart ==
    /\ rubricFile = DumpJson(NoFile, DEFAULT_TECH_RUBRIC)
    /\ resp = NoResp

StoreInit ==
    /\ StoreStart
    /\ versions \in { <<>>, <<VersionRow(1, 1, GarbageText)>> }

Next ==
    \/ GetRubrics
    \/ \E actor \in Actors : RubricVersions(actor)
    \/ \E actor \in Actors, body \in SaveBodies, commitOk \in BOOLEAN :
           SaveRubrics(actor, body, commitOk)
    \/ \E actor \in Actors, req \in RollbackBodies, commitOk \in BOOLEAN :
           RubricRollback(actor, req, commitOk)

----------------------------------------------------------------------------
(* feedback_tech.py: dictionaries, max points and the score skeleton.      *)

\* A dict keyed by name, in insertion order: d[name] = {score, total}.
Entry(k, score, total) == [name |-> k, score |-> score, total |-> total]
Keys(d) == { d[i].name : i \in 1 .. Len(d) }
Get(d, k) == d[CHOOSE i \in 1 .. Len(d) : d[i].name = k]
Put(d, k, score, total) ==
    IF k \in Keys(d)
    THEN [i \in 1 .. Len(d) |->
             IF d[i].name = k THEN Entry(k, score, total) ELSE d[i]]
    ELSE Append(d, Entry(k, score, total))

\* the loop of lines 17-21: mx = max(mx, float(points)), a failing float()
\* is passed over
RECURSIVE MaxCriteria(_, _)
MaxCriteria(crit, mx) ==
    IF crit = <<>> THEN mx
    ELSE MaxCriteria(Tail(crit),
                     IF Head(crit).num /\ Head(crit).pts > mx
                     THEN Head(crit).pts ELSE mx)

\* faulty variant: the explicit max_points is ignored
MaxPointsIgnoringOverride(item) == MaxCriteria(item.criteria, 0)

\* _max_points_for_item(item)
MaxPointsForItem(item) ==
    IF item.hasMax THEN item.max_points ELSE MaxCriteria(item.criteria, 0)

\* the loop of _build_scores_skeleton; ok = FALSE is the AttributeError of
\* r.get on an item that is not a dict
RECURSIVE SkeletonFrom(_, _)
SkeletonFrom(items, d) ==
    IF items = <<>> THEN [ok |-> TRUE, d |-> d]
    ELSE IF ~Head(items).isDict THEN [ok |-> FALSE, d |-> d]
    ELSE IF Strip(Head(items).name) = <<>> THEN SkeletonFrom(Tail(items), d)
    ELSE SkeletonFrom(Tail(items),
                      Put(d, Strip(Head(items).name), 0,
                          MaxPointsForItem(Head(items))))

\* _build_scores_skeleton(rubric)
BuildScoresSkeleton(items) == SkeletonFrom(items, <<>>)

----------------------------------------------------------------------------
(* feedback_tech.py: what generate_feedback hands back.                    *)

EmptyText ==
    <<"No report content provided. Paste your final report text or upload a file.">>
EmptySummary == "No content to evaluate."
OfflineText ==
    <<"**Final Report Feedback (offline mode)**",
      "- LLM disabled (no OPENAI_API_KEY). Returning structure-only scores.">>
OfflineSummary == "Model offline; no rubric scoring."
DegradedSummary == "Model error; no scores."
ReportTitle == "**Final Report Feedback**"

\* fb of line 152, embedding the error
DegradedText(err) ==
    <<"**Final Report Feedback (degraded)**", "- Error: " \o err,
      "Falling back to structure-only scores.">>

\* what lines 196-258 put into the text after the title: the total score
\* line (when shown), the cap notes, the "Draft scores" figures, the
\* revision order, the missing sections, the highlights and the per-rubric
\* breakdown; empty in the three fixed messages
NoReport ==
    [total_shown |-> FALSE, earned |-> 0, max_total |-> 0, caps |-> <<>>,
     revise |-> <<>>, missing |-> <<>>, highlights |-> <<>>,
     breakdown |-> <<>>]

Return(path, text, d, summary, quotes) ==
    [kind |-> "return", path |-> path, text |-> text, scores |-> d,
     summary |-> summary, quotes |-> quotes, report |-> NoReport]

\* an exception leaving generate_feedback
Raise(path, what) ==
    [kind |-> "raise", path |-> path, text |-> <<what>>, scores |-> <<>>,
     summary |-> "", quotes |-> <<>>, report |-> NoReport]

NoResult ==
    [kind |-> "none", path |-> "", text |-> <<>>, scores |-> <<>>,
     summary |-> "", quotes |-> <<>>, report |-> NoReport]

\* a return whose scores are the skeleton; building the skeleton may raise
WithSkeleton(path, text, items, summary) ==
    IF BuildScoresSkeleton(items).ok
    THEN Return(path, text, BuildScoresSkeleton(items).d, summary, <<>>)
    ELSE Raise(path, "AttributeError")

\* lines 40-46
EmptyInputResult(items) == WithSkeleton("empty", EmptyText, items, EmptySummary)

\* faulty variant: no skeleton in the offline answer
OfflineResultWithoutScores(items) ==
    Return("offline", OfflineText, <<>>, OfflineSummary, <<>>)

\* lines 49-58
OfflineResult(items) ==
    WithSkeleton("offline", OfflineText, items, OfflineSummary)

\* faulty variant: the failure is answered like a missing credential
DegradedAsOffline(items, err) ==
    WithSkeleton("degraded", OfflineText, items, OfflineSummary)

\* lines 151-153
DegradedResult(items, err) ==
    WithSkeleton("degraded", DegradedText(err), items, DegradedSummary)

----------------------------------------------------------------------------
(* feedback_tech.py: the LLM's answer.                                     *)
(* A row of data["writing"] is a JSON object or not; score and total are   *)
(* numbers or strings float() rejects; evidence_quotes and applied_caps    *)
(* are lists (a missing field is the empty list) or values that cannot be  *)
(* iterated; a list element is a string or not.                            *)

Num(n) == [num |-> TRUE, val |-> n]
NumText == [num |-> FALSE, val |-> 0]
Q(str) == [isStr |-> TRUE, s |-> str]
QNotStr == [isStr |-> FALSE, s |-> <<>>]
List(items) == [isList |-> TRUE, items |-> items]
NotAList == [isList |-> FALSE, items |-> <<>>]

Row(nm, score, total, quotes, caps) ==
    [isDict |-> TRUE, name |-> nm, score |-> score, total |-> total,
     evidence_quotes |-> quotes, applied_caps |-> caps, suggestion |-> <<>>]
RowNotDict ==
    [isDict |-> FALSE, name |-> <<>>, score |-> Num(0), total |-> Num(0),
     evidence_quotes |-> List(<<>>), applied_caps |-> List(<<>>),
     suggestion |-> <<>>]

\* the row with a "suggestion" string
Suggesting(w, sug) == [w EXCEPT !.suggestion = sug]

RowSet ==
    { Row(<<"A">>, Num(40), Num(60), List(<<>>), List(<<>>)),
      Row(<<"A">>, Num(60), Num(60), List(<<Q(<<"q1">>)>>),
          List(<<Q(<<"page cap">>), Q(<<" ">>)>>)),
      Row(<<"B">>, Num(0), Num(90), List(<<>>), List(<<>>)),
      Row(<<"B">>, Num(100), Num(90),
          List(<<Q(<<" ", "q1">>), Q(<<"q2">>), Q(<<"q3">>)>>), List(<<>>)),
      Row(<<" ">>, Num(30), Num(30), List(<<>>), List(<<>>)),
      Row(<<"A">>, NumText, Num(60), List(<<>>), List(<<>>)),
      Row(<<"B">>, Num(20), Num(40), NotAList, List(<<>>)),
      RowNotDict,
      Row(<<"A">>, Num(-10), Num(60), List(<<>>), List(<<>>)),
      Row(<<" ", "A">>, Num(50), Num(60), List(<<QNotStr>>), NotAList) }

\* the LLM call and json.loads of lines 128-153: an exception (error), a
\* JSON object with its "writing" rows and overall notes, or JSON that is
\* not an object
LlmError(err) == [kind |-> "error", error |-> err, rows |-> <<>>, notes |-> ""]
LlmObject(rs, notes) ==
    [kind |-> "object", error |-> "", rows |-> rs, notes |-> notes]
LlmNotObject == [kind |-> "nonobject", error |-> "", rows |-> <<>>, notes |-> ""]
\* a JSON object whose "writing" is a value "for" cannot iterate (a number)
LlmBadWriting ==
    [kind |-> "badwriting", error |-> "", rows |-> <<>>, notes |-> ""]

SeqsUpTo(S, n) == UNION { [1 .. k -> S] : k \in 0 .. n }

\* lines 157-158
StrictEvidence(env) ==
    (IF env = "unset" THEN "1" ELSE env) \notin {"0", "false", "no"}

PenaltyNum == 9
PenaltyDen == 10

\* faulty variant: the penalty is not applied
NoPenalty(s) == s

\* faulty variant: the factor is above 1
PenaltyRaises(s) == (s * 11) \div PenaltyDen

\* s *= 0.9
Penalize(s) == (s * PenaltyNum) \div PenaltyDen

\* faulty variant: known quotes are appended again
RECURSIVE AddQuotesAgain(_, _)
AddQuotesAgain(qs, ev) ==
    IF qs = <<>> THEN ev
    ELSE AddQuotesAgain(Tail(qs),
                        IF Strip(Head(qs).s) # <<>>
                        THEN Append(ev, Strip(Head(qs).s)) ELSE ev)

\* lines 181-184: up to two quotes, trimmed, blank and known ones dropped
RECURSIVE AddQuotes(_, _)
AddQuotes(qs, ev) ==
    IF qs = <<>> THEN ev
    ELSE AddQuotes(Tail(qs),
                   IF Strip(Head(qs).s) # <<>>
                      /\ \A i \in 1 .. Len(ev) : ev[i] # Strip(Head(qs).s)
                   THEN Append(ev, Strip(Head(qs).s)) ELSE ev)

\* lines 186-190: f"{name}: {c2}" for every non-blank cap
RECURSIVE AddCaps(_, _, _)
AddCaps(cs, nm, notes) ==
    IF cs = <<>> THEN notes
    ELSE AddCaps(Tail(cs), nm,
                 IF Strip(Head(cs).s) # <<>>
                 THEN Append(notes, <<nm, Strip(Head(cs).s)>>) ELSE notes)

IsStr(x) == x.isStr
FirstTwo(qs) == SubSeq(qs, 1, IF Len(qs) < 2 THEN Len(qs) ELSE 2)

----------------------------------------------------------------------------
(* feedback_tech.py: the report (lines 194-258).                           *)

\* faulty variant: the figure is cut, not rounded
FormatDown(x) == x \div 10

\* f"{x:.0f}" of a number held in tenths: the nearest integer, a tie going
\* to the even one
Format0(x) ==
    LET q == x \div 10
        r == x % 10
    IN  IF r < 5 THEN q
        ELSE IF r > 5 THEN q + 1
        ELSE IF q % 2 = 0 THEN q ELSE q + 1

\* line 212: (s / t) < 0.8, for t # 0
BelowFourFifths(s, t) == 10 * s * t < 8 * t * t

\* the try body of lines 207-211 runs through: the row is a dict and
\* float() accepts its score and total
Readable(w) == w.isDict /\ w.score.num /\ w.total.num

\* lines 203-217: the (n, s, t, suggestion) tuples of the weak rows
RECURSIVE WeakRows(_)
WeakRows(ws) ==
    IF ws = <<>> THEN <<>>
    ELSE LET w == Head(ws)
         IN  (IF Readable(w) /\ w.total.val # 0
                    /\ BelowFourFifths(w.score.val, w.total.val)
              THEN <<[name |-> Strip(w.name), score |-> w.score.val,
                      total |-> w.total.val,
                      suggestion |-> Strip(w.suggestion)]>>
              ELSE <<>>) \o WeakRows(Tail(ws))

\* lines 203-217: the (n, s, t) tuples of the strong rows
RECURSIVE StrongRows(_)
StrongRows(ws) ==
    IF ws = <<>> THEN <<>>
    ELSE LET w == Head(ws)
         IN  (IF Readable(w) /\ w.total.val # 0
                    /\ ~BelowFourFifths(w.score.val, w.total.val)
              THEN <<[name |-> Strip(w.name), score |-> w.score.val,
                      total |-> w.total.val]>>
              ELSE <<>>) \o StrongRows(Tail(ws))

\* x[1] / x[2] < y[1] / y[2], the totals not being 0
RatioBelow(x, y) ==
    x.score * y.total * (x.total * y.total)
        < y.score * x.total * (x.total * y.total)

\* list.sort is stable: x goes behind the entries whose key is not larger
RECURSIVE InsertByRatio(_, _)
InsertByRatio(x, sorted) ==
    IF sorted = <<>> THEN <<x>>
    ELSE IF RatioBelow(x, Head(sorted)) THEN <<x>> \o sorted
    ELSE <<Head(sorted)>> \o InsertByRatio(x, Tail(sorted))

RECURSIVE SortInto(_, _)
SortInto(ws, sorted) ==
    IF ws = <<>> THEN sorted
    ELSE SortInto(Tail(ws), InsertByRatio(Head(ws), sorted))

\* faulty variant: the weak rows are left in the order of the answer
Unsorted(ws) == ws

\* line 219: weak.sort(key=lambda x: x[1] / x[2])
SortByRatio(ws) == SortInto(ws, <<>>)

FirstN(sq, n) == SubSeq(sq, 1, IF Len(sq) < n THEN Len(sq) ELSE n)

RECURSIVE RStripDots(_)
RStripDots(str) ==
    IF str # <<>> /\ str[Len(str)] = "."
    THEN RStripDots(SubSeq(str, 1, Len(str) - 1))
    ELSE str

\* lines 227-229: one step of "Revise in this order"
Step(x) ==
    [name |-> x.name, score |-> x.score, total |-> x.total,
     action |-> RStripDots(IF x.suggestion # <<>> THEN x.suggestion
                           ELSE <<"Strengthen">> \o x.name
                                    \o <<"with quantitative evidence">>)]

ScoredZero(x) == x.score = 0

\* lines 240-258: the rows the per-rubric breakdown prints
RECURSIVE Breakdown(_)
Breakdown(ws) ==
    IF ws = <<>> THEN <<>>
    ELSE LET w == Head(ws)
             sug == Strip(w.suggestion)
             quotes == SelectSeq(w.evidence_quotes.items, IsStr)
         IN  (IF Readable(w) /\ w.evidence_quotes.isList
              THEN <<[name |-> Strip(w.name),
                      score |-> Format0(w.score.val),
                      total |-> Format0(w.total.val),
                      improve |-> IF sug = <<"none">> THEN <<>> ELSE sug,
                      evidence |-> [i \in 1 .. Len(FirstTwo(quotes)) |->
                                       Strip(quotes[i].s)]]>>
              ELSE <<>>) \o Breakdown(Tail(ws))

CapNotesShown == 8
RevisionSteps == 3
MissingShown == 5
HighlightsShown == 3

\* lines 195-258
Report(ws, e, mt, notes) ==
    LET weak == SortByRatio(WeakRows(ws))
        strong == StrongRows(ws)
    IN  [total_shown |-> mt > 0,
         earned |-> Format0(e),
         max_total |-> Format0(mt),
         caps |-> FirstN(notes, CapNotesShown),
         revise |-> [i \in 1 .. Len(FirstN(weak, RevisionSteps)) |->
                        Step(weak[i])],
         missing |-> [i \in 1 .. Len(FirstN(SelectSeq(weak, ScoredZero),
                                            MissingShown)) |->
                         SelectSeq(weak, ScoredZero)[i].name],
         highlights |-> [i \in 1 .. Len(FirstN(strong, HighlightsShown)) |->
                            strong[i].name],
         breakdown |-> Breakdown(ws)]

WithReport(r, rep) == [r EXCEPT !.report = rep]

----------------------------------------------------------------------------
(* generate_feedback, as three steps: the entry up to the LLM answer       *)
(* (lines 39-162), one iteration of the main loop (lines 164-192), and     *)
(* the report and return (lines 194-262).                                  *)

\* every item of the rubric is a dict (r.get works, line 98)
AllDicts(items) == \A i \in 1 .. Len(items) : items[i].isDict

GenLocals == <<rows, idx, earned, max_total, scores, evidence_quotes, cap_notes>>
GenInputs == <<message, rubric, apiKey, strictEnv, llm>>

GenerateFeedback ==
    /\ pc = "call"
    /\ IF Strip(message) = <<>> THEN
           /\ result' = EmptyInputResult(rubric)
           /\ pc' = "done"
           /\ UNCHANGED GenLocals
       ELSE IF Strip(apiKey) = <<>> THEN
           /\ result' = OfflineResult(rubric)
           /\ pc' = "done"
           /\ UNCHANGED GenLocals
       ELSE IF ~AllDicts(rubric) THEN
           /\ result' = Raise("payload", "AttributeError")
           /\ pc' = "done"
           /\ UNCHANGED GenLocals
       ELSE IF llm.kind = "error" THEN
           /\ result' = DegradedResult(rubric, llm.error)
           /\ pc' = "done"
           /\ UNCHANGED GenLocals
       ELSE IF llm.kind = "nonobject" THEN
           \* line 155: data.get
           /\ result' = Raise("writing", "AttributeError")
           /\ pc' = "done"
           /\ UNCHANGED GenLocals
       ELSE IF llm.kind = "badwriting" THEN
           \* line 164: for w in writing_rows
           /\ result' = Raise("rows", "TypeError")
           /\ pc' = "done"
           /\ UNCHANGED GenLocals
       ELSE
           /\ rows' = llm.rows
           /\ idx' = 1
           /\ earned' = 0
           /\ max_total' = 0
           /\ scores' = <<>>
           /\ evidence_quotes' = <<>>
           /\ cap_notes' = <<>>
           /\ pc' = "rows"
           /\ UNCHANGED result
    /\ llmCalls' = IF Strip(message) # <<>> /\ Strip(apiKey) # <<>>
                       /\ AllDicts(rubric)
                   THEN llmCalls + 1 ELSE llmCalls
    /\ UNCHANGED GenInputs
    /\ UNCHANGED reqVars
    /\ UNCHANGED <<storeVars, exVars, logVars, concVars>>

\* one iteration of "for w in writing_rows" (lines 164-192)
ProcessRow ==
    /\ pc = "rows"
    /\ idx <= Len(rows)
    /\ LET w == rows[idx]
           nm == Strip(w.name)
           t == w.total.val
           quotes == SelectSeq(w.evidence_quotes.items, IsStr)
           penal == StrictEvidence(strictEnv) /\ w.score.val > 0 /\ quotes = <<>>
           s == IF penal THEN Penalize(w.score.val) ELSE w.score.val
       IN  IF ~w.isDict \/ nm = <<>> \/ ~w.score.num \/ ~w.total.num THEN
               \* w.get raised, the name is blank, or float() raised
               UNCHANGED <<rows, earned, max_total, scores, evidence_quotes,
                           cap_notes>>
           ELSE IF ~w.evidence_quotes.isList THEN
               \* line 173 raised, after line 171
               /\ max_total' = max_total + t
               /\ UNCHANGED <<rows, earned, scores, evidence_quotes, cap_notes>>
           ELSE
               /\ max_total' = max_total + t
               /\ rows' = IF penal
                          THEN [rows EXCEPT ![idx].score = Num(s)]
                          ELSE rows
               /\ earned' = earned + s
               /\ scores' = Put(scores, nm, s, t)
               /\ evidence_quotes' = AddQuotes(FirstTwo(quotes), evidence_quotes)
               /\ cap_notes' =
                     IF w.applied_caps.isList
                     THEN AddCaps(SelectSeq(w.applied_caps.items, IsStr), nm,
                                  cap_notes)
                     ELSE cap_notes
    /\ idx' = idx + 1
    /\ UNCHANGED <<pc, result, llmCalls>>
    /\ UNCHANGED GenInputs
    /\ UNCHANGED reqVars
    /\ UNCHANGED <<storeVars, exVars, logVars, concVars>>

\* lines 194-262: the report text and the returned tuple
BuildReport ==
    /\ pc = "rows"
    /\ idx > Len(rows)
    /\ result' =
          IF scores # <<>>
          THEN WithReport(Return("normal", <<ReportTitle>>, scores, llm.notes,
                                 evidence_quotes),
                          Report(rows, earned, max_total, cap_notes))
          ELSE IF BuildScoresSkeleton(rubric).ok
          THEN WithReport(Return("normal", <<ReportTitle>>,
                                 BuildScoresSkeleton(rubric).d, llm.notes,
                                 evidence_quotes),
                          Report(rows, earned, max_total, cap_notes))
          ELSE Raise("normal", "AttributeError")
    /\ pc' = "done"
    /\ UNCHANGED GenLocals
    /\ UNCHANGED llmCalls
    /\ UNCHANGED GenInputs
    /\ UNCHANGED reqVars
    /\ UNCHANGED <<storeVars, exVars, logVars, concVars>>

----------------------------------------------------------------------------
(* Inputs of generate_feedback.                                            *)

Messages == { <<>>, <<" ">>, <<"x">>, <<" ", "x", " ">> }
ApiKeys == { <<>>, <<" ">>, <<"sk">> }
StrictValues == { "unset", "1", "0", "false", "no" }
Rubrics == SeqsUpTo(ItemSet, MaxSections)

GenStart ==
    /\ pc = "call"
    /\ rows = <<>>
    /\ idx = 1
    /\ earned = 0
    /\ max_total = 0
    /\ scores = <<>>
    /\ evidence_quotes = <<>>
    /\ cap_notes = <<>>
    /\ result = NoResult
    /\ llmCalls = 0
    /\ attempt = 1
    /\ http = 0

\* every rubric, with a few LLM answers
GenInitRubrics ==
    /\ message \in Messages
    /\ apiKey \in ApiKeys
    /\ strictEnv = "unset"
    /\ rubric \in Rubrics
    /\ llm \in { LlmError("timeout"), LlmNotObject, LlmBadWriting,
                 LlmObject(<<>>, "ok"),
                 LlmObject(<<Row(<<"A">>, Num(40), Num(60), List(<<>>),
                                 List(<<>>))>>, "ok") }

\* every LLM answer, with one rubric
GenInitRows ==
    /\ message = <<"x">>
    /\ apiKey = <<"sk">>
    /\ strictEnv \in StrictValues
    /\ rubric = <<SecA, SecB>>
    /\ llm \in { LlmObject(rs, "ok") : rs \in SeqsUpTo(RowSet, MaxRows) }

\* a one-section rubric whose best level is 4 points, the answer giving
\* the section 4 of 4 without evidence
ExecutiveSummary ==
    Item(<<"Executive Summary">>, FALSE, 0,
         <<Pt(40), Pt(30), Pt(20), Pt(10), Pt(0)>>)

GenInitExample ==
    /\ message = <<"x">>
    /\ apiKey = <<"sk">>
    /\ strictEnv \in StrictValues
    /\ rubric = <<ExecutiveSummary>>
    /\ llm = LlmObject(<<Row(<<"Executive Summary">>, Num(40), Num(40),
                             List(<<>>), List(<<>>))>>, "ok")

\* rows of different ratios, for the ranking of the Overall Summary
RankRowSet ==
    { Row(<<"A">>, Num(10), Num(60), List(<<Q(<<"q1">>)>>), List(<<>>)),
      Row(<<"B">>, Num(0), Num(90), List(<<>>), List(<<>>)),
      Suggesting(Row(<<"C">>, Num(30), Num(60), List(<<Q(<<"q2">>)>>),
                     List(<<>>)), <<"add data", ".">>),
      Row(<<"D">>, Num(50), Num(60), List(<<>>), List(<<>>)),
      Row(<<"E">>, Num(60), Num(60), List(<<Q(<<"q3">>)>>), List(<<>>)),
      Row(<<"F">>, Num(0), Num(0), List(<<>>), List(<<>>)),
      Row(<<"G">>, Num(20), Num(120), List(<<Q(<<"q1">>)>>), List(<<>>)) }

\* most rows of a ranking answer
MaxRankRows == 4

GenInitRanking ==
    /\ message = <<"x">>
    /\ apiKey = <<"sk">>
    /\ strictEnv \in { "unset", "0" }
    /\ rubric = <<SecA, SecB>>
    /\ llm \in { LlmObject(rs, "ok") : rs \in SeqsUpTo(RankRowSet, MaxRankRows) }

GenInit ==
    GenStart /\ (GenInitRubrics \/ GenInitRows \/ GenInitExample
                    \/ GenInitRanking)

GenNext == GenerateFeedback \/ ProcessRow \/ BuildReport

\* no generate_feedback call in progress
GenIdle ==
    /\ message = <<>>
    /\ rubric = <<>>
    /\ apiKey = <<>>
    /\ strictEnv = "unset"
    /\ llm = LlmNotObject
    /\ pc = "idle"
    /\ rows = <<>>
    /\ idx = 1
    /\ earned = 0
    /\ max_total = 0
    /\ scores = <<>>
    /\ evidence_quotes = <<>>
    /\ cap_notes = <<>>
    /\ result = NoResult
    /\ llmCalls = 0
    /\ attempt = 1
    /\ http = 0

----------------------------------------------------------------------------
(* models.py, app.py: the interaction table.                               *)
(* A row holds its owner, what was submitted, what generate_feedback       *)
(* returned, and the rating and comment attached later (NULL at first).    *)

NoRating == [has |-> FALSE, val |-> 0]
Rated(n) == [has |-> TRUE, val |-> n]
NoComment == [has |-> FALSE, s |-> ""]
Comment(str) == [has |-> TRUE, s |-> str]

\* Interaction(...) of lines 562-571, with the id the insert gives it
Interaction(id, user, prompt, res) ==
    [id |-> id, user_id |-> user, prompt_text |-> prompt,
     feedback_text |-> res.text, feedback_summary |-> res.summary,
     scores_json |-> res.scores, rating |-> NoRating,
     student_feedback_text |-> NoComment]

\* lines 562-573: db.session.add(rec); db.session.commit()
AddInteraction(table, user, prompt, res) ==
    Append(table, Interaction(Len(table) + 1, user, prompt, res))

\* db.session.get(Interaction, id): the row's index, 0 for None
GetInteraction(table, id) ==
    IF id \in 1 .. Len(table) THEN id ELSE 0

\* lines 600-605: the user's row with the latest feedback_time, 0 for None
LatestOf(table, user) ==
    IF \E i \in 1 .. Len(table) : table[i].user_id = user
    THEN CHOOSE i \in 1 .. Len(table) :
             /\ table[i].user_id = user
             /\ \A j \in 1 .. Len(table) : table[j].user_id = user => j <= i
    ELSE 0

\* the account whose request ReqSpec follows
Requester == 3

----------------------------------------------------------------------------
(* app.py: POST /get_feedback (lines 549-583) around generate_feedback.    *)

\* the LLM answers of a request
ReqAnswers ==
    { LlmError("timeout"), LlmNotObject, LlmBadWriting, LlmObject(<<>>, "ok"),
      LlmObject(<<Row(<<"A">>, Num(40), Num(60), List(<<>>), List(<<>>))>>,
                "ok") }

\* lines 556-558: generate_feedback raised, the except calls it again; the
\* LLM answers anew
FallbackCall ==
    /\ pc = "done"
    /\ http = 0
    /\ attempt = 1
    /\ result.kind = "raise"
    /\ attempt' = 2
    /\ pc' = "call"
    /\ llm' \in ReqAnswers
    /\ rows' = <<>>
    /\ idx' = 1
    /\ earned' = 0
    /\ max_total' = 0
    /\ scores' = <<>>
    /\ evidence_quotes' = <<>>
    /\ cap_notes' = <<>>
    /\ result' = NoResult
    /\ UNCHANGED <<message, rubric, apiKey, strictEnv, llmCalls, http>>
    /\ UNCHANGED <<storeVars, exVars, logVars, concVars>>

\* lines 562-583: the response. The first call's tuple is stored and
\* answered with 200. The second call never yields one: it raises again,
\* or its four values do not unpack into "ft, sc, sm" (line 558), and the
\* exception leaves the handler.
Respond ==
    /\ pc = "done"
    /\ http = 0
    /\ attempt = 2 \/ result.kind = "return"
    /\ http' = IF attempt = 1 THEN 200 ELSE 500
    /\ pc' = "responded"
    /\ interactions' =
          IF attempt = 1
          THEN AddInteraction(interactions, Requester, Strip(message), result)
          ELSE interactions
    /\ UNCHANGED <<GenLocals, GenInputs, result, llmCalls, attempt>>
    /\ UNCHANGED <<storeVars, exVars, logResp, concVars>>

ReqInit ==
    /\ GenStart
    /\ message \in { <<>>, <<"x">> }
    /\ apiKey \in { <<>>, <<"sk">> }
    /\ strictEnv = "unset"
    /\ rubric \in { <<SecA, SecB>>, <<NotAnObject>> }
    /\ llm \in ReqAnswers

ReqNext ==
    GenerateFeedback \/ ProcessRow \/ BuildReport \/ FallbackCall \/ Respond

----------------------------------------------------------------------------
(* app.py: the endpoints of the interaction table, as whole requests.      *)
(* generate_feedback is stepped in GenSpec and ReqSpec; here a scoring     *)
(* request takes its outcome as an input.                                  *)

\* most rows of the interaction table explored
MaxInteractions == 2

\* a visitor who is not logged in, an admin and a student
LogActors == {Anonymous, 1} \cup Students

\* what generate_feedback hands to a scoring request
LogResults ==
    { OfflineResult(<<SecA, SecB>>), Raise("writing", "AttributeError") }

LogResponse(op, status, actor, id) ==
    [op |-> op, status |-> status, actor |-> actor, id |-> id]
NoLogResp == LogResponse("none", 0, Anonymous, 0)

\* POST /get_feedback (lines 518-583) with the outcome of generate_feedback
PostGetFeedback(actor, text, res) ==
    /\ Len(interactions) < MaxInteractions
    /\ IF actor = Anonymous THEN
           /\ logResp' = LogResponse("get_feedback", 401, actor, 0)
           /\ UNCHANGED interactions
       ELSE IF res.kind = "raise" THEN
           \* line 558 raises as well
           /\ logResp' = LogResponse("get_feedback", 500, actor, 0)
           /\ UNCHANGED interactions
       ELSE
           /\ interactions' = AddInteraction(interactions, actor, text, res)
           /\ logResp' = LogResponse("get_feedback", 200, actor,
                                     Len(interactions) + 1)
    /\ UNCHANGED <<storeVars, genVars, exVars, concVars>>

\* the JSON body of POST /submit_feedback: not JSON, or an object with an
\* interaction_id (0: missing or falsy), a rating (missing, an integer, or
\* a value int() rejects) and a feedback text (missing or given)
SubmitBody(valid, id, rating, feedback) ==
    [valid |-> valid, interaction_id |-> id, rating |-> rating,
     feedback |-> feedback]
RatingMissing == [kind |-> "none", val |-> 0]
RatingInt(n) == [kind |-> "int", val |-> n]
RatingBad == [kind |-> "bad", val |-> 0]

SubmitBodies ==
    { SubmitBody(FALSE, 0, RatingMissing, NoComment) }
        \cup { SubmitBody(TRUE, id, r, f) :
                   id \in 0 .. MaxInteractions + 1,
                   r \in { RatingMissing, RatingInt(5), RatingBad },
                   f \in { NoComment, Comment("good") } }

\* POST /submit_feedback (lines 585-621)
SubmitFeedback(actor, body, commitOk) ==
    /\ IF actor = Anonymous THEN
           /\ logResp' = LogResponse("submit_feedback", 401, actor, 0)
           /\ UNCHANGED interactions
       ELSE IF ~body.valid THEN
           /\ logResp' = LogResponse("submit_feedback", 400, actor, 0)
           /\ UNCHANGED interactions
       ELSE
           LET got == IF body.interaction_id # 0
                      THEN GetInteraction(interactions, body.interaction_id)
                      ELSE 0
               at == IF got # 0 THEN got ELSE LatestOf(interactions, actor)
           IN  IF at = 0 THEN
                   /\ logResp' = LogResponse("submit_feedback", 404, actor, 0)
                   /\ UNCHANGED interactions
               ELSE IF ~commitOk THEN
                   \* lines 619-621: rollback
                   /\ logResp' = LogResponse("submit_feedback", 400, actor, at)
                   /\ UNCHANGED interactions
               ELSE
                   /\ interactions' =
                         [interactions EXCEPT
                            ![at].rating =
                                IF body.rating.kind = "int"
                                THEN Rated(body.rating.val) ELSE @,
                            ![at].student_feedback_text =
                                IF body.feedback.has THEN body.feedback ELSE @]
                   /\ logResp' = LogResponse("submit_feedback", 200, actor, at)
    /\ UNCHANGED <<storeVars, genVars, exVars, concVars>>

\* GET /history/<rid> (lines 390-403)
HistoryDetail(actor, rid) ==
    /\ logResp' =
          IF actor = Anonymous
          THEN LogResponse("history_detail", 401, actor, 0)
          ELSE IF GetInteraction(interactions, rid) = 0
                  \/ interactions[rid].user_id # actor
          THEN LogResponse("history_detail", 404, actor, 0)
          ELSE LogResponse("history_detail", 200, actor, rid)
    /\ UNCHANGED interactions
    /\ UNCHANGED <<storeVars, genVars, exVars, concVars>>

LogInit ==
    /\ interactions = <<>>
    /\ logResp = NoLogResp

LogNext ==
    \/ \E actor \in LogActors, text \in { <<"x">> }, res \in LogResults :
           PostGetFeedback(actor, text, res)
    \/ \E actor \in LogActors, body \in SubmitBodies, commitOk \in BOOLEAN :
           SubmitFeedback(actor, body, commitOk)
    \/ \E actor \in LogActors, rid \in 0 .. MaxInteractions + 1 :
           HistoryDetail(actor, rid)

----------------------------------------------------------------------------
(* app.py: save_rubrics and rubric_rollback served concurrently.           *)
(* A handler is cut where another request can run between its two          *)
(* effects: up to and including _dump_json (the file is written), and the  *)
(* insert into rubric_version with its commit. Nothing in app.py           *)
(* serialises the handlers. A file write is taken as a whole.              *)

\* requests in flight at once
NumRequests == 2
Requests == 1 .. NumRequests

\* a request: where its handler stands, the text it will store as a
\* version, its status, and whether its insert was committed
Handler(at, op, actor, text, status, appended) ==
    [pc |-> at, op |-> op, actor |-> actor, text |-> text, status |-> status,
     appended |-> appended]
NotStarted == Handler("ready", "none", Anonymous, GarbageText, 0, FALSE)

ConcBodies ==
    { BadBody, Body(JArray(<<SecA, SecB>>)), Body(JArray(<<SecB>>)) }

\* save_rubrics, lines 266-273
SaveWrite(r, actor, body) ==
    /\ inflight[r].pc = "ready"
    /\ IF ~IsAdmin(actor) THEN
           /\ inflight' = [inflight EXCEPT
                              ![r] = Handler("done", "save", actor, GarbageText,
                                             403, FALSE)]
           /\ UNCHANGED rubricFile
       ELSE IF ~body.parses \/ ~IsList(body.val) THEN
           /\ inflight' = [inflight EXCEPT
                              ![r] = Handler("done", "save", actor, GarbageText,
                                             400, FALSE)]
           /\ UNCHANGED rubricFile
       ELSE
           /\ rubricFile' = DumpJson(rubricFile, body.val)
           /\ inflight' = [inflight EXCEPT
                              ![r] = Handler("wrote", "save", actor,
                                             Dumps(body.val, 0), 0, FALSE)]
    /\ UNCHANGED <<versions, resp>>
    /\ UNCHANGED <<genVars, exVars, logVars>>

\* rubric_rollback, lines 340-356
RollbackWrite(r, actor, req) ==
    /\ inflight[r].pc = "ready"
    /\ IF ~IsAdmin(actor) THEN
           /\ inflight' = [inflight EXCEPT
                              ![r] = Handler("done", "rollback", actor,
                                             GarbageText, 403, FALSE)]
           /\ UNCHANGED rubricFile
       ELSE IF ~req.hasVid THEN
           /\ inflight' = [inflight EXCEPT
                              ![r] = Handler("done", "rollback", actor,
                                             GarbageText, 400, FALSE)]
           /\ UNCHANGED rubricFile
       ELSE IF ~HasVersion(versions, req.vid) THEN
           /\ inflight' = [inflight EXCEPT
                              ![r] = Handler("done", "rollback", actor,
                                             GarbageText, 404, FALSE)]
           /\ UNCHANGED rubricFile
       ELSE IF ~Loads(GetVersion(versions, req.vid).rubric_json).ok THEN
           /\ inflight' = [inflight EXCEPT
                              ![r] = Handler("done", "rollback", actor,
                                             GarbageText, 400, FALSE)]
           /\ UNCHANGED rubricFile
       ELSE
           /\ rubricFile' =
                 DumpJson(rubricFile,
                          Loads(GetVersion(versions, req.vid).rubric_json).val)
           /\ inflight' = [inflight EXCEPT
                              ![r] = Handler("wrote", "rollback", actor,
                                             GetVersion(versions, req.vid).rubric_json,
                                             0, FALSE)]
    /\ UNCHANGED <<versions, resp>>
    /\ UNCHANGED <<genVars, exVars, logVars>>

\* lines 275-283 and 357-364: the version row, the commit, the answer
AppendVersion(r, commitOk) ==
    /\ inflight[r].pc = "wrote"
    /\ versions' = AddVersion(versions, inflight[r].actor, inflight[r].text,
                              commitOk)
    /\ inflight' = [inflight EXCEPT
                       ![r] = Handler("done", inflight[r].op, inflight[r].actor,
                                      inflight[r].text, 200, commitOk)]
    /\ UNCHANGED <<rubricFile, resp>>
    /\ UNCHANGED <<genVars, exVars, logVars>>

ConcIdle == inflight = [r \in Requests |-> NotStarted]

\* the table may hold the version of an earlier save
ConcInit ==
    /\ StoreStart
    /\ versions \in { <<>>, <<VersionRow(1, 1, Dumps(JArray(<<SecA>>), 0))>> }
    /\ ConcIdle

ConcNext ==
    \/ \E r \in Requests, actor \in Actors, body \in ConcBodies :
           SaveWrite(r, actor, body)
    \/ \E r \in Requests, actor \in Actors,
          req \in { [hasVid |-> FALSE, vid |-> -1] }
                     \cup { [hasVid |-> TRUE, vid |-> v] : v \in 1 .. 2 } :
           RollbackWrite(r, actor, req)
    \/ \E r \in Requests, commitOk \in BOOLEAN : AppendVersion(r, commitOk)

----------------------------------------------------------------------------
(* rubric_extract.py.                                                      *)
(* The text is a sequence of lines. A line is what the three regular       *)
(* expressions of _heuristic_extract make of it: blank, a heading (cat_re  *)
(* matches; "long" when it has more than 8 words), a criterion with a      *)
(* points label (crit_re1), a criterion without one (crit_re2, whose       *)
(* description has at least 6 characters or not), or other text. A line    *)
(* may hold the word "rubric" (mark). The window of lines 44-48 is cut in  *)
(* whole lines.                                                            *)

Crit(p, d) == [points |-> p, description |-> d]
Section(nm, cs) == [name |-> nm, scoringCriteria |-> cs]

\* a criterion handed to _normalize_item: a dict whose points is a number,
\* a string holding a numeral, or neither; or not a dict
RawCrit(kind, val, desc) ==
    [isDict |-> TRUE, kind |-> kind, val |-> val, description |-> desc]
RawCritNotDict ==
    [isDict |-> FALSE, kind |-> "none", val |-> 0, description |-> <<>>]

\* lines 15-19
PointsOf(c) == IF c.kind \in {"number", "numeral"} THEN c.val ELSE 0

\* lines 14-25: points made numeric, descriptions trimmed, repeats dropped
RECURSIVE NormalizeCriteria(_, _)
NormalizeCriteria(cs, out) ==
    IF cs = <<>> THEN out
    ELSE LET k == Crit(PointsOf(Head(cs)), Strip(Head(cs).description))
         IN  NormalizeCriteria(Tail(cs),
                 IF \E i \in 1 .. Len(out) : out[i] = k THEN out
                 ELSE Append(out, k))

\* lines 27-33
DefaultScale ==
    <<Crit(40, <<"Excellent.">>), Crit(30, <<"Good.">>), Crit(20, <<"Fair.">>),
      Crit(10, <<"Poor.">>), Crit(0, <<"Insufficient.">>)>>

\* faulty variant: no default scale for an item without criteria
NormalizeItemBare(name, criteria) ==
    Section(IF Strip(name) = <<>> THEN <<"Untitled">> ELSE Strip(name),
            NormalizeCriteria(criteria, <<>>))

\* _normalize_item(name, criteria), every criterion being a dict
NormalizeItem(name, criteria) ==
    Section(IF Strip(name) = <<>> THEN <<"Untitled">> ELSE Strip(name),
            IF NormalizeCriteria(criteria, <<>>) = <<>> THEN DefaultScale
            ELSE NormalizeCriteria(criteria, <<>>))

\* an element of the LLM's array: a dict with a name and scoringCriteria (a
\* list, or a value that cannot be iterated), or not a dict
RawItem(nm, isList, cs) ==
    [isDict |-> TRUE, name |-> nm, isList |-> isList, criteria |-> cs]
RawItemNotDict ==
    [isDict |-> FALSE, name |-> <<>>, isList |-> TRUE, criteria |-> <<>>]

\* what the call and json.loads of lines 130-141 give: an exception, a JSON
\* array, an object with a list under "rubric", an object without one, or
\* another JSON value
ExAnswer(kind, items) == [kind |-> kind, items |-> items]

\* line 143 runs through for every element
Cleanable(items) ==
    \A i \in 1 .. Len(items) :
        /\ items[i].isDict
        /\ items[i].isList
        /\ \A j \in 1 .. Len(items[i].criteria) : items[i].criteria[j].isDict

\* _llm_extract(text); <<>> stands for None
LlmExtract(key, ans) ==
    IF Strip(key) = <<>> THEN <<>>
    ELSE IF ans.kind \in {"array", "rubric"} /\ ans.items # <<>>
            /\ Cleanable(ans.items)
    THEN [i \in 1 .. Len(ans.items) |->
             NormalizeItem(ans.items[i].name, ans.items[i].criteria)]
    ELSE <<>>

Line(kind, nm, pts, desc, long, mark) ==
    [kind |-> kind, name |-> nm, pts |-> pts, description |-> desc,
     long |-> long, mark |-> mark]

\* (text or "").strip() is empty
BlankText(lines) == \A i \in 1 .. Len(lines) : lines[i].kind = "blank"

\* text.strip() of line 154: no blank lines at either end
RECURSIVE TrimLines(_)
TrimLines(lines) ==
    IF lines = <<>> THEN <<>>
    ELSE IF Head(lines).kind = "blank" THEN TrimLines(Tail(lines))
    ELSE IF lines[Len(lines)].kind = "blank"
    THEN TrimLines(SubSeq(lines, 1, Len(lines) - 1))
    ELSE lines

\* the window around the first "rubric" (200 characters before it, 8000
\* in all), in lines
LookBack == 1
WindowLines == 3

\* lines 44-48
Window(lines) ==
    IF \E i \in 1 .. Len(lines) : lines[i].mark
    THEN LET at == CHOOSE i \in 1 .. Len(lines) :
                      lines[i].mark /\ \A j \in 1 .. i - 1 : ~lines[j].mark
             start == IF at - LookBack < 1 THEN 1 ELSE at - LookBack
             stop == IF start + WindowLines - 1 > Len(lines) THEN Len(lines)
                     ELSE start + WindowLines - 1
         IN  SubSeq(lines, start, stop)
    ELSE lines

\* push() of lines 54-58: the items after it
Push(items, nm, cs) ==
    IF nm # <<>> THEN Append(items, NormalizeItem(nm, cs)) ELSE items

\* the criteria [{"points": p, "description": ""} for p in pts] of line 105
Levels(pts) == [i \in 1 .. Len(pts) |-> RawCrit("number", pts[i], <<>>)]

\* lines 94-105
FallbackSections ==
    <<NormalizeItem(<<"Executive Summary">>, Levels(<<40, 30, 20, 10, 0>>)),
      NormalizeItem(<<"Context: Puerto Rico">>, Levels(<<40, 30, 20, 10, 0>>)),
      NormalizeItem(<<"Process Description & Flows">>,
                    Levels(<<50, 40, 30, 20, 0>>)),
      NormalizeItem(<<"Safety & Environmental">>,
                    Levels(<<40, 30, 20, 10, 0>>)),
      NormalizeItem(<<"Economic Analysis">>, Levels(<<40, 30, 20, 10, 0>>)),
      NormalizeItem(<<"Data, Methods, and Rigor">>,
                    Levels(<<50, 40, 30, 20, 0>>)),
      NormalizeItem(<<"Figures, Tables, and Formatting">>,
                    Levels(<<30, 20, 10, 0>>)),
      NormalizeItem(<<"Writing Quality">>, Levels(<<30, 20, 10, 0>>))>>

ExLocals == <<exLines, exPos, exItems, current_name, current_criteria>>
ExInputs == <<exText, exKey, exLlm>>

\* extract_rubric_from_text up to the call of _heuristic_extract, and the
\* start of the latter (lines 154-160, 41-52)
ExtractRubricFromText ==
    /\ exPc = "call"
    /\ IF BlankText(exText) THEN
           /\ exResult' = <<>>
           /\ exPc' = "done"
           /\ UNCHANGED ExLocals
       ELSE IF LlmExtract(exKey, exLlm) # <<>> THEN
           /\ exResult' = LlmExtract(exKey, exLlm)
           /\ exPc' = "done"
           /\ UNCHANGED ExLocals
       ELSE
           /\ exLines' = Window(TrimLines(exText))
           /\ exPos' = 1
           /\ exItems' = <<>>
           /\ current_name' = <<>>
           /\ current_criteria' = <<>>
           /\ exPc' = "scan"
           /\ UNCHANGED exResult
    /\ UNCHANGED ExInputs
    /\ UNCHANGED <<storeVars, genVars, logVars, concVars>>

\* one iteration of "for ln in lines" (lines 64-88)
ScanLine ==
    /\ exPc = "scan"
    /\ exPos <= Len(exLines)
    /\ LET ln == exLines[exPos]
       IN  IF ln.kind = "heading" /\ ~ln.long THEN
               /\ exItems' = Push(exItems, current_name, current_criteria)
               /\ current_name' = ln.name
               /\ current_criteria' = <<>>
           ELSE IF ln.kind = "points" /\ current_name # <<>> THEN
               /\ current_criteria' =
                     Append(current_criteria,
                            RawCrit("number", ln.pts, ln.description))
               /\ UNCHANGED <<exItems, current_name>>
           ELSE IF ln.kind = "plain" /\ current_name # <<>> /\ ln.long THEN
               /\ current_criteria' =
                     Append(current_criteria,
                            RawCrit("number", ln.pts, ln.description))
               /\ UNCHANGED <<exItems, current_name>>
           ELSE
               UNCHANGED <<exItems, current_name, current_criteria>>
    /\ exPos' = exPos + 1
    /\ UNCHANGED <<exLines, exPc, exResult>>
    /\ UNCHANGED ExInputs
    /\ UNCHANGED <<storeVars, genVars, logVars, concVars>>

\* lines 90-106: the last push, the fallback and the return
FinishScan ==
    /\ exPc = "scan"
    /\ exPos > Len(exLines)
    /\ exItems' = Push(exItems, current_name, current_criteria)
    /\ current_name' = <<>>
    /\ current_criteria' = <<>>
    /\ exResult' = IF exItems' = <<>> THEN FallbackSections ELSE exItems'
    /\ exPc' = "done"
    /\ UNCHANGED <<exLines, exPos>>
    /\ UNCHANGED ExInputs
    /\ UNCHANGED <<storeVars, genVars, logVars, concVars>>

\* longest text explored, in lines
MaxLines == 3

LineSet ==
    { Line("blank", <<>>, 0, <<>>, FALSE, FALSE),
      Line("text", <<>>, 0, <<>>, FALSE, FALSE),
      Line("text", <<>>, 0, <<>>, FALSE, TRUE),
      Line("heading", <<"Methods">>, 0, <<>>, FALSE, FALSE),
      Line("heading", <<"Grading Rubric">>, 0, <<>>, FALSE, TRUE),
      Line("heading", <<"Results of the second design review of the plant">>,
           0, <<>>, TRUE, FALSE),
      Line("points", <<>>, 40, <<"clear">>, FALSE, FALSE),
      Line("plain", <<>>, 30, <<"mostly clear">>, TRUE, FALSE),
      Line("plain", <<>>, 20, <<"weak">>, FALSE, FALSE) }

ExAnswers ==
    { ExAnswer("error", <<>>), ExAnswer("scalar", <<>>),
      ExAnswer("norubric", <<>>), ExAnswer("array", <<>>),
      ExAnswer("array", <<RawItem(<<" ">>, TRUE, <<>>)>>),
      ExAnswer("rubric",
               <<RawItem(<<"Summary">>, TRUE,
                         <<RawCrit("number", 40, <<"clear">>),
                           RawCrit("numeral", 40, <<"clear", " ">>),
                           RawCrit("none", 0, <<>>)>>)>>),
      ExAnswer("array", <<RawItem(<<"Summary">>, TRUE, <<>>), RawItemNotDict>>),
      ExAnswer("array", <<RawItem(<<"Summary">>, FALSE, <<>>)>>),
      ExAnswer("rubric", <<RawItem(<<"Summary">>, TRUE, <<RawCritNotDict>>)>>) }

ExStart ==
    /\ exPc = "call"
    /\ exLines = <<>>
    /\ exPos = 1
    /\ exItems = <<>>
    /\ current_name = <<>>
    /\ current_criteria = <<>>
    /\ exResult = <<>>

ExInit ==
    /\ ExStart
    /\ exText \in SeqsUpTo(LineSet, MaxLines)
    /\ \/ exKey \in { <<>>, <<" ">> } /\ exLlm = ExAnswer("error", <<>>)
       \/ exKey = <<"sk">> /\ exLlm \in ExAnswers

ExNext == ExtractRubricFromText \/ ScanLine \/ FinishScan

\* no extract_rubric_from_text call in progress
ExIdle ==
    /\ exText = <<>>
    /\ exKey = <<>>
    /\ exLlm = ExAnswer("error", <<>>)
    /\ exPc = "idle"
    /\ exLines = <<>>
    /\ exPos = 1
    /\ exItems = <<>>
    /\ current_name = <<>>
    /\ current_criteria = <<>>
    /\ exResult = <<>>

----------------------------------------------------------------------------
(* Specifications.                                                         *)

\* no request of the interaction endpoints yet
LogIdle == LogInit

\* the rubric endpoints
Init == StoreInit /\ GenIdle /\ ExIdle /\ LogIdle /\ ConcIdle
Spec == Init /\ [][Next]_vars

\* one generate_feedback call
GenSpecInit ==
    StoreStart /\ versions = <<>> /\ GenInit /\ ExIdle /\ LogIdle /\ ConcIdle
GenSpec == GenSpecInit /\ [][GenNext]_vars

\* one POST /get_feedback
ReqSpecInit ==
    StoreStart /\ versions = <<>> /\ ReqInit /\ ExIdle /\ LogIdle /\ ConcIdle
ReqSpec == ReqSpecInit /\ [][ReqNext]_vars

\* one extract_rubric_from_text call
ExSpecInit ==
    StoreStart /\ versions = <<>> /\ GenIdle /\ ExInit /\ LogIdle /\ ConcIdle
ExSpec == ExSpecInit /\ [][ExNext]_vars

\* requests of several accounts to the interaction endpoints
LogSpecInit ==
    StoreStart /\ versions = <<>> /\ GenIdle /\ ExIdle /\ LogInit /\ ConcIdle
LogSpec == LogSpecInit /\ [][LogNext]_vars

\* concurrent save and rollback requests
ConcSpecInit == ConcInit /\ GenIdle /\ ExIdle /\ LogIdle
ConcSpec == ConcSpecInit /\ [][ConcNext]_vars

----------------------------------------------------------------------------
(* Vocabulary of the properties, stated without the operators above.       *)

IsBlank(str) == \A i \in 1 .. Len(str) : str[i] = " "

\* str without its leading and trailing whitespace
Trimmed(str) ==
    IF IsBlank(str) THEN <<>>
    ELSE LET solid == { i \in 1 .. Len(str) : str[i] # " " }
             lo == CHOOSE i \in solid : \A j \in solid : i <= j
             hi == CHOOSE i \in solid : \A j \in solid : j <= i
         IN  SubSeq(str, lo, hi)

\* the section's max points: the explicit override, or the largest points
\* value among its scoring criteria (0 without any)
SectionMaxPoints(sec) ==
    IF sec.hasMax THEN sec.max_points
    ELSE LET pts == {0} \cup { sec.criteria[i].pts :
                               i \in { j \in 1 .. Len(sec.criteria) :
                                       sec.criteria[j].num } }
         IN  CHOOSE m \in pts : \A n \in pts : n <= m

NoDuplicateKeys(d) == \A i, j \in 1 .. Len(d) : d[i].name = d[j].name => i = j

\* d is the zeroed skeleton of the rubric, read literally: one entry per
\* section, keyed by the section's name as given
IsLiteralSkeleton(d, items) ==
    /\ Keys(d) = { items[i].name : i \in 1 .. Len(items) }
    /\ NoDuplicateKeys(d)
    /\ \A i \in 1 .. Len(items) :
           Get(d, items[i].name) =
               Entry(items[i].name, 0, SectionMaxPoints(items[i]))

\* d is the zeroed skeleton of the rubric, names trimmed: one entry per
\* non-blank trimmed name, holding the max points of the last section with
\* that name
IsZeroSkeleton(d, items) ==
    /\ Keys(d) = { Trimmed(items[i].name) : i \in 1 .. Len(items) } \ {<<>>}
    /\ NoDuplicateKeys(d)
    /\ \A k \in Keys(d) :
           LET named == { i \in 1 .. Len(items) : Trimmed(items[i].name) = k }
               last == CHOOSE i \in named : \A j \in named : j <= i
           IN  Get(d, k) = Entry(k, 0, SectionMaxPoints(items[last]))

\* the rubric is a list of JSON objects
SectionsOnly(items) == \A i \in 1 .. Len(items) : items[i].isDict

----------------------------------------------------------------------------
(* C1. For every rubric and every empty or whitespace-only message,        *)
(* generate returns the fixed empty-input message and a zeroed skeleton.   *)

\* C1 as stated: for a blank message the call returns the empty-input
\* message and a skeleton keyed by exactly the rubric's section names, each
\* entry with score 0 and total the section's max points.
C1_Original ==
    (pc = "done" /\ IsBlank(message) /\ SectionsOnly(rubric)) =>
        /\ result.kind = "return"
        /\ result.text = EmptyText
        /\ IsLiteralSkeleton(result.scores, rubric)

\* C1 as amended: for a blank message and a rubric of section objects the
\* call returns the empty-input message and a skeleton keyed by exactly the
\* non-blank trimmed section names, each entry with score 0 and total the
\* max points of the last section carrying that trimmed name.
C1_EmptyInputSkeleton ==
    (pc = "done" /\ IsBlank(message) /\ SectionsOnly(rubric)) =>
        /\ result.kind = "return"
        /\ result.text = EmptyText
        /\ IsZeroSkeleton(result.scores, rubric)

\* a whitespace-only message answered with a skeleton one of whose keys is
\* the trimmed form of a padded section name
C1_Witness ==
    /\ pc = "done"
    /\ message # <<>>
    /\ IsBlank(message)
    /\ result.kind = "return"
    /\ result.path = "empty"
    /\ Len(rubric) = 2
    /\ \E i \in 1 .. Len(rubric) :
           /\ rubric[i].isDict
           /\ Trimmed(rubric[i].name) # rubric[i].name
           /\ Trimmed(rubric[i].name) \in Keys(result.scores)

----------------------------------------------------------------------------
(* C2. Without a credential generate returns the offline message and the   *)
(* zeroed skeleton.                                                        *)

\* C2 as stated: with no credential configured the call returns the offline
\* message and the zeroed skeleton whatever the message is, a blank message
\* included.
C2_Original ==
    (pc = "done" /\ IsBlank(apiKey) /\ SectionsOnly(rubric)) =>
        /\ result.kind = "return"
        /\ result.text = OfflineText
        /\ IsZeroSkeleton(result.scores, rubric)

\* C2 as amended: with no credential configured and a message that is not
\* blank, the call returns the offline message and the zeroed skeleton.
C2_OfflineSkeleton ==
    (pc = "done" /\ IsBlank(apiKey) /\ ~IsBlank(message)
                 /\ SectionsOnly(rubric)) =>
        /\ result.kind = "return"
        /\ result.text = OfflineText
        /\ IsZeroSkeleton(result.scores, rubric)

\* a non-blank message answered offline with a non-empty skeleton
C2_Witness ==
    /\ pc = "done"
    /\ IsBlank(apiKey)
    /\ ~IsBlank(message)
    /\ result.kind = "return"
    /\ result.path = "offline"
    /\ Len(result.scores) = 2

----------------------------------------------------------------------------
(* Vocabulary of the rubric-store properties.                              *)

StoreUnchanged == rubricFile' = rubricFile /\ versions' = versions

\* the step is a save / rollback request of an administrator
AdminSaveStep == resp'.op = "save" /\ resp'.actor \in Admins
AdminRollbackStep ==
    resp'.op = "rollback" /\ resp'.actor \in Admins /\ resp'.vid >= 0

IsArrayBody(b) == b.parses /\ b.val.kind = "array"

\* a RubricSection of the data model: an object with a non-blank name and
\* at least one scoring criterion
ValidSection(sec) == sec.isDict /\ ~IsBlank(sec.name) /\ Len(sec.criteria) >= 1

\* a Rubric of the data model: a non-empty array of valid sections with
\* distinct names
ValidRubricBody(b) ==
    /\ IsArrayBody(b)
    /\ b.val.items # <<>>
    /\ \A i \in 1 .. Len(b.val.items) : ValidSection(b.val.items[i])
    /\ \A i, j \in 1 .. Len(b.val.items) :
           b.val.items[i].name = b.val.items[j].name => i = j

KnownVersion(table, vid) == \E i \in 1 .. Len(table) : table[i].id = vid
CorruptVersion(table, vid) ==
    \E i \in 1 .. Len(table) : table[i].id = vid /\ ~table[i].rubric_json.valid

----------------------------------------------------------------------------
(* C3. A save whose payload is not an array (a single object, or a body    *)
(* that is not JSON) is answered 400 and leaves the active rubric file and *)
(* the version history as they were.                                       *)
C3_NonArrayRejected ==
    [][(AdminSaveStep /\ ~IsArrayBody(resp'.body)) =>
           (resp'.status = 400 /\ StoreUnchanged)]_vars

\* a single object was refused while a saved rubric was active and the
\* history was not empty
C3_Witness ==
    /\ resp.op = "save"
    /\ resp.actor \in Admins
    /\ resp.body = Body(JObject)
    /\ resp.status = 400
    /\ GetActive = JArray(<<SecA, SecB>>)
    /\ Len(versions) >= 1

----------------------------------------------------------------------------
(* C4. replace fails with a validation error whenever the new rubric is    *)
(* not a non-empty sequence of valid sections: no save of an administrator *)
(* with such a payload is answered 200, and the payload does not become    *)
(* the active rubric.                                                      *)
C4_InvalidRubricRejected ==
    [][(AdminSaveStep /\ ~ValidRubricBody(resp'.body)) =>
           (resp'.status = 400 /\ rubricFile' = rubricFile)]_vars

----------------------------------------------------------------------------
(* C5. Right after a successful replace(rubric), getActive() is the rubric *)
(* that was passed in.                                                     *)
C5_ReplaceThenGetActive ==
    (resp.op = "save" /\ resp.status = 200) => GetActive = resp.body.val

\* a two-section rubric was saved over an earlier saved rubric
C5_Witness ==
    /\ resp.op = "save"
    /\ resp.status = 200
    /\ resp.body.val = JArray(<<SecA, SecB>>)
    /\ GetActive = JArray(<<SecA, SecB>>)
    /\ Len(versions) >= 2
    /\ versions[1].rubric_json.valid
    /\ versions[1].rubric_json.val # JArray(<<SecA, SecB>>)

----------------------------------------------------------------------------
(* C6. Right after a successful rollback(v), getActive() is the snapshot   *)
(* stored at version v, whatever was saved or rolled back since v.         *)
C6_RollbackThenGetActive ==
    (resp.op = "rollback" /\ resp.status = 200) =>
        \E i \in 1 .. Len(versions) :
            /\ versions[i].id = resp.vid
            /\ versions[i].rubric_json.valid
            /\ GetActive = versions[i].rubric_json.val

\* a rollback to version 1 after a different rubric had been saved as
\* version 2
C6_Witness ==
    /\ resp.op = "rollback"
    /\ resp.status = 200
    /\ resp.vid = 1
    /\ Len(versions) >= 2
    /\ versions[2].rubric_json # versions[1].rubric_json
    /\ GetActive = versions[1].rubric_json.val

----------------------------------------------------------------------------
(* C7. A rejected rollback leaves the store unchanged: an unknown version  *)
(* id is answered 404, a version whose snapshot is not valid JSON is       *)
(* answered 400, and every rollback not answered 200 leaves the active     *)
(* rubric file and the version history as they were.                       *)
C7_RejectedRollbackUnchanged ==
    [][AdminRollbackStep =>
           /\ ~KnownVersion(versions, resp'.vid) =>
                  (resp'.status = 404 /\ StoreUnchanged)
           /\ CorruptVersion(versions, resp'.vid) =>
                  (resp'.status = 400 /\ StoreUnchanged)
           /\ resp'.status # 200 => StoreUnchanged]_vars

\* a rollback to the version with the unparsable snapshot was refused
\* while a saved rubric was active
C7_Witness ==
    /\ resp.op = "rollback"
    /\ resp.status = 400
    /\ resp.vid = 1
    /\ CorruptVersion(versions, 1)
    /\ Len(versions) >= 2
    /\ GetActive = JArray(<<SecA, SecB>>)

----------------------------------------------------------------------------
(* C8. Every replacement of the active rubric is also appended to the      *)
(* version history: a save or rollback answered 200 appends exactly one    *)
(* version row, and that row holds the rubric that is now active.          *)
C8_ReplacementAppendsVersion ==
    [][((resp'.op \in {"save", "rollback"}) /\ resp'.status = 200
            /\ resp'.actor \in Admins) =>
           /\ Len(versions') = Len(versions) + 1
           /\ SubSeq(versions', 1, Len(versions)) = versions
           /\ versions'[Len(versions')].rubric_json.valid
           /\ versions'[Len(versions')].rubric_json.val
                  = LoadJson(rubricFile', DEFAULT_TECH_RUBRIC)]_vars

----------------------------------------------------------------------------
(* C9. The version history is append-only and its rows are immutable:      *)
(* every step keeps every existing row (id, creator, rubricJson) in place, *)
(* and a successful rollback to v appends one row whose rubricJson is that *)
(* of v.                                                                   *)
C9_HistoryAppendOnly ==
    [][/\ Len(versions') >= Len(versions)
       /\ SubSeq(versions', 1, Len(versions)) = versions
       /\ (AdminRollbackStep /\ resp'.status = 200) =>
              /\ Len(versions') = Len(versions) + 1
              /\ \E i \in 1 .. Len(versions) :
                     /\ versions[i].id = resp'.vid
                     /\ versions'[Len(versions')].rubric_json
                            = versions[i].rubric_json]_vars

----------------------------------------------------------------------------
(* Vocabulary of the post-processing properties.                           *)

\* evidence strictness is enabled (the default; "0", "false" and "no"
\* switch it off)
StrictOn == strictEnv \notin {"0", "false", "no"}

\* the row is one the loop records: an object with a non-blank name and
\* numeric score and total
Recordable(w) == w.isDict /\ ~IsBlank(w.name) /\ w.score.num /\ w.total.num

\* the row reports a score above 0 and carries an empty evidence list
UnsupportedScore(w) ==
    /\ Recordable(w)
    /\ w.score.val > 0
    /\ w.evidence_quotes.isList
    /\ w.evidence_quotes.items = <<>>

----------------------------------------------------------------------------
(* C10. With evidence strictness enabled, the loop iteration that handles  *)
(* a row with a score above 0 and an empty evidence list records for it    *)
(* (in scores, in the row itself and in the earned total) a score that is  *)
(* strictly below the reported score and not negative.                     *)
C10_PenaltyLowersScore ==
    [][(pc = "rows" /\ idx' = idx + 1 /\ StrictOn
            /\ UnsupportedScore(rows[idx])) =>
           LET raw == rows[idx].score.val
               nm == Trimmed(rows[idx].name)
           IN  /\ nm \in Keys(scores')
               /\ Get(scores', nm).score >= 0
               /\ Get(scores', nm).score < raw
               /\ rows'[idx].score.val = Get(scores', nm).score
               /\ earned' = earned + Get(scores', nm).score]_vars

\* the second row of the answer reported 4.0 points without evidence and
\* was recorded with 3.6
C10_Witness ==
    /\ pc = "rows"
    /\ idx = 3
    /\ StrictOn
    /\ UnsupportedScore(llm.rows[2])
    /\ llm.rows[2].score.val = 40
    /\ rows[2].score.val = 36
    /\ Get(scores, <<"A">>).score = 36

----------------------------------------------------------------------------
(* Vocabulary of the properties of the returned scores and report.         *)

\* the call was given text and a credential
Submitted == ~IsBlank(message) /\ ~IsBlank(apiKey)

\* the call has returned a tuple
Returned == pc = "done" /\ result.kind = "return"

\* the one-section example: a rubric whose only section, Executive
\* Summary, is worth 4 points; the answer gives it 4 of 4 without evidence;
\* strictness is on
ExampleCase ==
    /\ Submitted
    /\ StrictOn
    /\ Len(rubric) = 1
    /\ rubric[1].isDict
    /\ rubric[1].name = <<"Executive Summary">>
    /\ SectionMaxPoints(rubric[1]) = 40
    /\ llm.kind = "object"
    /\ Len(llm.rows) = 1
    /\ llm.rows[1].isDict
    /\ llm.rows[1].name = <<"Executive Summary">>
    /\ llm.rows[1].score = Num(40)
    /\ llm.rows[1].total = Num(40)
    /\ llm.rows[1].evidence_quotes = List(<<>>)

----------------------------------------------------------------------------
(* C11. The one-section example with evidence strictness.                  *)

\* C11 as stated: in the example the report shows the earned total as
\* 3.2 of 4.0 and the scores entry of Executive Summary is score 3.2,
\* total 4.
C11_Original ==
    (pc = "done" /\ ExampleCase) =>
        /\ result.kind = "return"
        /\ result.report.total_shown
        /\ result.report.earned * 10 = 32
        /\ result.report.max_total * 10 = 40
        /\ Get(result.scores, <<"Executive Summary">>).score = 32
        /\ Get(result.scores, <<"Executive Summary">>).total = 40

\* C11 as amended: in the example the report shows the total score as 4/4
\* (both figures rounded to whole points) and the only scores entry is
\* Executive Summary with score 3.6 and total 4.
C11_ExamplePenalised ==
    (pc = "done" /\ ExampleCase) =>
        /\ result.kind = "return"
        /\ result.report.total_shown
        /\ result.report.earned = 4
        /\ result.report.max_total = 4
        /\ Keys(result.scores) = { <<"Executive Summary">> }
        /\ Get(result.scores, <<"Executive Summary">>).score = 36
        /\ Get(result.scores, <<"Executive Summary">>).total = 40

\* the example has run to its return with the EVIDENCE_STRICT variable unset
C11_Witness ==
    /\ pc = "done"
    /\ ExampleCase
    /\ strictEnv = "unset"
    /\ result.path = "normal"
    /\ Len(result.report.breakdown) = 1

----------------------------------------------------------------------------
(* C12. Range of the returned scores.                                      *)

\* every row of the answer that carries numbers reports 0 <= score <= total
RowsInRange ==
    \A i \in 1 .. Len(llm.rows) :
        (llm.rows[i].isDict /\ llm.rows[i].score.num /\ llm.rows[i].total.num)
            => /\ 0 <= llm.rows[i].score.val
               /\ llm.rows[i].score.val <= llm.rows[i].total.val

\* no section of the rubric has negative max points
MaxPointsNotNegative ==
    \A i \in 1 .. Len(rubric) :
        rubric[i].isDict => SectionMaxPoints(rubric[i]) >= 0

EntriesInRange(d) ==
    \A i \in 1 .. Len(d) : 0 <= d[i].score /\ d[i].score <= d[i].total

----------------------------------------------------------------------------
(* C13. For every rubric and every LLM answer, every entry of the returned *)
(* scores is keyed by the (trimmed) name of a section of the rubric and    *)
(* its total is the max points of a section of that name.                  *)
C13_ScoresFollowRubric ==
    (Returned /\ SectionsOnly(rubric)) =>
        \A i \in 1 .. Len(result.scores) :
            \E j \in 1 .. Len(rubric) :
                /\ Trimmed(rubric[j].name) = result.scores[i].name
                /\ SectionMaxPoints(rubric[j]) = result.scores[i].total

----------------------------------------------------------------------------
(* C14. Given text, a credential and a rubric of section objects,          *)
(* generate returns a tuple whatever the LLM call and the parse produce:   *)
(* no exception leaves it.                                                 *)
C14_NoExceptionEscapes ==
    (pc = "done" /\ Submitted /\ SectionsOnly(rubric)) =>
        result.kind = "return"

----------------------------------------------------------------------------
(* C15. One POST /get_feedback issues at most one LLM call, whatever the   *)
(* call returns or raises, the handler's exception fallback included.      *)
C15_SingleLlmCall == llmCalls <= 1

----------------------------------------------------------------------------
(* C16. Given text, a credential and a rubric of section objects, a        *)
(* failure of the LLM call or of the JSON decoding ends the call in the    *)
(* degraded answer: the degraded message holding the error, the zeroed     *)
(* skeleton, the fixed summary and no evidence, with no row processed and  *)
(* no report built.                                                        *)
C16_FailureDegrades ==
    (pc = "done" /\ Submitted /\ SectionsOnly(rubric) /\ llm.kind = "error") =>
        /\ result.kind = "return"
        /\ Len(result.text) = 3
        /\ result.text[1] = "**Final Report Feedback (degraded)**"
        /\ result.text[2] = "- Error: " \o llm.error
        /\ result.text[3] = "Falling back to structure-only scores."
        /\ IsZeroSkeleton(result.scores, rubric)
        /\ \A i \in 1 .. Len(result.scores) : result.scores[i].score = 0
        /\ result.summary = "Model error; no scores."
        /\ result.quotes = <<>>
        /\ result.report = NoReport
        /\ rows = <<>> /\ idx = 1 /\ earned = 0 /\ max_total = 0
        /\ llmCalls = 1

\* a timed-out call answered with the degraded message and a skeleton of
\* two sections
C16_Witness ==
    /\ pc = "done"
    /\ Submitted
    /\ llm.kind = "error"
    /\ llm.error = "timeout"
    /\ result.path = "degraded"
    /\ Len(result.scores) = 2

----------------------------------------------------------------------------
(* Vocabulary of the evidence quotes.                                      *)

TextItem(x) == x.isStr
NotEmpty(str) == str # <<>>

\* the row is recorded by the loop with its evidence: an object with a
\* non-blank name, numeric score and total and a list of evidence
Collecting(w) == Recordable(w) /\ w.evidence_quotes.isList

\* the evidence quotes of a row: its first two string quotes, trimmed, the
\* blank ones left out; none for a row that is not recorded
QuotesOf(w) ==
    IF Collecting(w)
    THEN LET strs == SelectSeq(w.evidence_quotes.items, TextItem)
             n == IF Len(strs) < 2 THEN Len(strs) ELSE 2
         IN  SelectSeq([i \in 1 .. n |-> Trimmed(strs[i].s)], NotEmpty)
    ELSE <<>>

\* the evidence quotes of all rows, in the order of the answer
RECURSIVE QuotesOfRows(_)
QuotesOfRows(ws) ==
    IF ws = <<>> THEN <<>> ELSE QuotesOf(Head(ws)) \o QuotesOfRows(Tail(ws))

\* where x is first seen in sq
FirstSeen(sq, x) ==
    CHOOSE i \in 1 .. Len(sq) : sq[i] = x /\ \A j \in 1 .. i - 1 : sq[j] # x

----------------------------------------------------------------------------
----------------------------------------------------------------------------
(* Vocabulary of the skipped rows.                                         *)

\* the row is to be skipped: it is no object, its name is missing or
\* blank, or one of its fields does not have the expected type
Malformed(w) ==
    \/ ~w.isDict
    \/ IsBlank(w.name)
    \/ ~w.score.num
    \/ ~w.total.num
    \/ ~w.evidence_quotes.isList
    \/ ~w.applied_caps.isList

WellFormed(w) == ~Malformed(w)

RECURSIVE SumOfTotals(_)
SumOfTotals(ws) ==
    IF ws = <<>> THEN 0 ELSE Head(ws).total.val + SumOfTotals(Tail(ws))

RECURSIVE SumOfScores(_)
SumOfScores(ws) ==
    IF ws = <<>> THEN 0 ELSE Head(ws).score.val + SumOfScores(Tail(ws))

----------------------------------------------------------------------------
(* C19. A malformed row leaves no trace in the result: the keys of the     *)
(* scores built by the loop, the earned and the max total, the evidence    *)
(* quotes and the lines of the report are those of the well-formed rows    *)
(* alone.                                                                  *)
C19_MalformedRowsLeaveNoTrace ==
    (Returned /\ result.path = "normal") =>
        LET kept == SelectSeq(rows, WellFormed)
        IN  /\ Keys(scores) = { Trimmed(kept[i].name) : i \in 1 .. Len(kept) }
            /\ max_total = SumOfTotals(kept)
            /\ earned = SumOfScores(kept)
            /\ result.quotes = evidence_quotes
            /\ { result.quotes[i] : i \in 1 .. Len(result.quotes) }
                   = { QuotesOfRows(kept)[i] :
                          i \in 1 .. Len(QuotesOfRows(kept)) }
            /\ Len(result.report.breakdown) = Len(kept)
            /\ \A i \in 1 .. Len(kept) :
                   result.report.breakdown[i].name = Trimmed(kept[i].name)
            /\ \A i \in 1 .. Len(result.report.revise) :
                   \E j \in 1 .. Len(kept) :
                       result.report.revise[i].name = Trimmed(kept[j].name)
            /\ \A i \in 1 .. Len(result.report.highlights) :
                   \E j \in 1 .. Len(kept) :
                       result.report.highlights[i] = Trimmed(kept[j].name)

----------------------------------------------------------------------------
(* Vocabulary of the ranking.                                              *)

\* the row carries a numeric score and total
Scored(w) == w.isDict /\ w.score.num /\ w.total.num

\* weak: total above 0 and score / total below 0.8
Weak(w) ==
    Scored(w) /\ w.total.val > 0 /\ 10 * w.score.val < 8 * w.total.val

\* strong: score / total at least 0.8
Strong(w) ==
    Scored(w) /\ w.total.val > 0 /\ 10 * w.score.val >= 8 * w.total.val

\* a.score / a.total <= b.score / b.total, both totals above 0
RatioAtMost(a, b) == a.score * b.total <= b.score * a.total

Figures(w) == [score |-> w.score.val, total |-> w.total.val]

----------------------------------------------------------------------------
----------------------------------------------------------------------------
(* Vocabulary of the extractor's properties.                               *)

\* the text is empty after trimming: it has no line that is not blank
EmptySource == \A i \in 1 .. Len(exText) : exText[i].kind = "blank"

\* a section with a name that is not blank and at least one criterion
UsableSection(sec) ==
    ~IsBlank(sec.name) /\ Len(sec.scoringCriteria) >= 1

\* the LLM path gives nothing: no credential, an exception, or JSON that
\* holds no non-empty array
NothingFromLlm ==
    \/ IsBlank(exKey)
    \/ exLlm.kind \in {"error", "scalar", "norubric"}
    \/ exLlm.items = <<>>

\* the text has no heading line
NoHeading == \A i \in 1 .. Len(exText) : exText[i].kind # "heading"

----------------------------------------------------------------------------
(* C18. extract returns the empty list exactly when the source text is     *)
(* empty after trimming; for every other text it returns a non-empty list  *)
(* of sections, each with a non-blank name and at least one criterion,     *)
(* whether the LLM path is unavailable, raises or yields nothing usable;   *)
(* when neither the LLM nor the text yields a section, the list is the     *)
(* fixed one of 8 sections.                                                *)
C18_ExtractAlwaysYields ==
    exPc = "done" =>
        /\ (exResult = <<>>) <=> EmptySource
        /\ \A i \in 1 .. Len(exResult) : UsableSection(exResult[i])
        /\ (~EmptySource /\ NothingFromLlm /\ NoHeading) =>
               /\ Len(exResult) = 8
               /\ exResult[1].name = <<"Executive Summary">>
               /\ exResult[8].name = <<"Writing Quality">>

\* the LLM call raised, the text has a heading without criteria under it:
\* the heuristic returned one section with the default scale
C18_Witness ==
    /\ exPc = "done"
    /\ ~IsBlank(exKey)
    /\ exLlm.kind = "error"
    /\ ~NoHeading
    /\ Len(exResult) = 1
    /\ Len(exResult[1].scoringCriteria) = 5

----------------------------------------------------------------------------
(* Vocabulary of the interaction table's properties.                       *)

\* what was submitted and what was answered, with the owner
Submission(rec) ==
    <<rec.id, rec.user_id, rec.prompt_text, rec.feedback_text,
      rec.feedback_summary, rec.scores_json>>

\* what a rating request attaches
Attached(rec) == <<rec.rating, rec.student_feedback_text>>

----------------------------------------------------------------------------
(* C21. No request deletes an interaction or changes its owner, submitted  *)
(* text, scores or feedback text, and the rating and the student's comment *)
(* of an interaction change only in a submit_feedback request of the       *)
(* account that owns it.                                                   *)
C21_OnlyOwnerMutates ==
    [][/\ Len(interactions') >= Len(interactions)
       /\ \A i \in 1 .. Len(interactions) :
              /\ Submission(interactions'[i]) = Submission(interactions[i])
              /\ Attached(interactions'[i]) # Attached(interactions[i]) =>
                     /\ logResp'.op = "submit_feedback"
                     /\ logResp'.actor = interactions[i].user_id]_vars

----------------------------------------------------------------------------
(* Vocabulary of the concurrent requests.                                  *)

\* every request has completed successfully: answered 200, its version
\* committed
AllServed ==
    \A r \in Requests :
        /\ inflight[r].pc = "done"
        /\ inflight[r].status = 200
        /\ inflight[r].appended

----------------------------------------------------------------------------
(* C22. Once all of several concurrent, successful save and rollback       *)
(* requests have completed, whatever the interleaving of their file        *)
(* writes and version appends, the rubric in the active file is the        *)
(* rubric of the most recently appended version.                           *)
C22_ActiveMatchesLatestVersion ==
    AllServed =>
        /\ versions # <<>>
        /\ rubricFile.exists
        /\ rubricFile.text.valid
        /\ versions[Len(versions)].rubric_json.valid
        /\ rubricFile.text.val = versions[Len(versions)].rubric_json.val

----------------------------------------------------------------------------
(* Vocabulary of the totals.                                               *)

RECURSIVE SumOfEntryScores(_)
SumOfEntryScores(d) ==
    IF d = <<>> THEN 0 ELSE Head(d).score + SumOfEntryScores(Tail(d))

RECURSIVE SumOfEntryTotals(_)
SumOfEntryTotals(d) ==
    IF d = <<>> THEN 0 ELSE Head(d).total + SumOfEntryTotals(Tail(d))

\* n is x (in tenths) as the report prints it: the nearest whole number,
\* the even one of two equally near
PrintedAs(x, n) ==
    \/ 10 * n - x < 5 /\ x - 10 * n < 5
    \/ (10 * n - x = 5 \/ x - 10 * n = 5) /\ n % 2 = 0

----------------------------------------------------------------------------
(* C23. On the normal path, the earned total and the max total of the      *)
(* report's total-score line are the sum of score and the sum of total     *)
(* over the entries of the returned scores, as printed, for every answer   *)
(* of the LLM, two rows of the same name included.                         *)
C23_TotalsMatchScores ==
    (Returned /\ result.path = "normal" /\ result.report.total_shown) =>
        /\ PrintedAs(SumOfEntryScores(result.scores), result.report.earned)
        /\ PrintedAs(SumOfEntryTotals(result.scores), result.report.max_total)

====
